---- MODULE Spec2Model ----
(***************************************************************************)
(* Model of organize.py: a photo organizer that copies the files of a      *)
(* source directory (messy_dir) into a date-structured archive             *)
(* (organized_dir), skipping content whose SHA-1 is already in the list    *)
(* `hashes`, which is loaded from / saved to organized_dir/hashes.pickle.  *)
(*                                                                         *)
(* Text (file names, directory names, tag values) is a sequence of         *)
(* one-character strings, so that splitext, lower, strptime and strftime   *)
(* are computed character by character.  File content is a sequence of     *)
(* blocks (small naturals).                                                *)
(***************************************************************************)
EXTENDS Integers, Sequences, FiniteSets, TLC

\* ------------------------------------------------------------------ bounds

\* Number of organize() invocations against the same archive.
MaxRuns == 3
\* Number of files in one source tree.
MaxFiles == 2
\* Number of uuid4() calls, that is of name collisions, over all invocations.
MaxUuids == 1

\* ------------------------------------------------------------------ text

Digits == <<"0", "1", "2", "3", "4", "5", "6", "7", "8", "9">>

Upper == <<"A", "B", "C", "D", "E", "F", "G", "H", "I", "J", "K", "L", "M",
           "N", "O", "P", "Q", "R", "S", "T", "U", "V", "W", "X", "Y", "Z">>

Lower == <<"a", "b", "c", "d", "e", "f", "g", "h", "i", "j", "k", "l", "m",
           "n", "o", "p", "q", "r", "s", "t", "u", "v", "w", "x", "y", "z">>

IsDigit(c) == \E k \in 1..10 : Digits[k] = c

DigitVal(c) == (CHOOSE k \in 1..10 : Digits[k] = c) - 1

\* str.lower() on one character, then on a string
LowerChar(c) ==
    IF \E k \in 1..26 : Upper[k] = c
    THEN Lower[CHOOSE k \in 1..26 : Upper[k] = c]
    ELSE c

lower(s) == [k \in 1..Len(s) |-> LowerChar(s[k])]

\* The decimal digits of n, zero-padded on the left to width w (%m, %d, %Y ...)
RECURSIVE Pad(_, _)
Pad(n, w) == IF w = 0 THEN <<>> ELSE Pad(n \div 10, w - 1) \o <<Digits[(n % 10) + 1]>>

\* The number written by the digits s[a..b]
RECURSIVE Num(_, _, _)
Num(s, a, b) == IF b < a THEN 0 ELSE Num(s, a, b - 1) * 10 + DigitVal(s[b])

\* os.path.splitext on a base name: the extension starts at the last dot,
\* unless that dot has only dots before it (leading dots are not extensions).
splitext(name) ==
    LET dots == {k \in 1..Len(name) : name[k] = "."}
        last == IF dots = {} THEN 0 ELSE CHOOSE k \in dots : \A j \in dots : j <= k
        real == last > 0 /\ \E j \in 1..(last - 1) : name[j] # "."
    IN  IF real
        THEN <<SubSeq(name, 1, last - 1), SubSeq(name, last, Len(name))>>
        ELSE <<name, <<>>>>

\* ------------------------------------------------------------------ hashing

\* hash_file: the hasher is fed the file block by block; the digest is a
\* function of the whole block sequence (an injective fold over blocks 0..3
\* stands for SHA-1).
RECURSIVE hash_file(_)
hash_file(data) ==
    IF data = <<>> THEN 0
    ELSE hash_file(SubSeq(data, 1, Len(data) - 1)) * 5 + data[Len(data)] + 1

\* ------------------------------------------------------------------ metadata

exif_date_tag == "EXIF DateTimeOriginal"

\* Tag values that occur in the modelled files.
GoodDate == <<"2", "0", "2", "1", ":", "0", "6", ":", "1", "5", " ", "1", "0", ":", "3", "0", ":", "0", "0">>
ZeroDate == <<"0", "0", "0", "0", ":", "0", "0", ":", "0", "0", " ", "0", "0", ":", "0", "0", ":", "0", "0">>

\* get_exif_tags: the tags exifread reads out of the file's bytes.  The tags
\* are a function of the content: here the first block decides them
\* (1 or 3: a well-formed date, 2: the all-zero date cameras write when the
\* clock is unset, anything else: no date tag).
get_exif_tags(data) ==
    IF data # <<>> /\ data[1] \in {1, 3} THEN [tag |-> exif_date_tag, value |-> GoodDate]
    ELSE IF data # <<>> /\ data[1] = 2 THEN [tag |-> exif_date_tag, value |-> ZeroDate]
    ELSE [tag |-> "none", value |-> <<>>]

IsLeap(y) == (y % 4 = 0 /\ y % 100 # 0) \/ y % 400 = 0

DaysIn(y, m) ==
    IF m = 2 THEN (IF IsLeap(y) THEN 29 ELSE 28)
    ELSE IF m \in {4, 6, 9, 11} THEN 30 ELSE 31

\* datetime.strptime(s, "%Y:%m:%d %H:%M:%S") on the zero-padded 19-character
\* form EXIF uses; ok = FALSE stands for the ValueError it raises.
strptime(s) ==
    LET shaped == /\ Len(s) = 19
                  /\ s[5] = ":" /\ s[8] = ":" /\ s[11] = " " /\ s[14] = ":" /\ s[17] = ":"
                  /\ \A k \in (1..19) \ {5, 8, 11, 14, 17} : IsDigit(s[k])
        y == Num(s, 1, 4)
        mo == Num(s, 6, 7)
        d == Num(s, 9, 10)
        h == Num(s, 12, 13)
        mi == Num(s, 15, 16)
        se == Num(s, 18, 19)
    IN  IF /\ shaped
           /\ y >= 1 /\ mo \in 1..12 /\ d >= 1 /\ d <= DaysIn(y, mo)
           /\ h <= 23 /\ mi <= 59 /\ se <= 59
        THEN [ok |-> TRUE, year |-> y, month |-> mo, day |-> d,
              hour |-> h, minute |-> mi, second |-> se]
        ELSE [ok |-> FALSE, year |-> 0, month |-> 0, day |-> 0,
              hour |-> 0, minute |-> 0, second |-> 0]

\* pictime.strftime(filename_format), filename_format = "%Y-%m-%d %H.%M.%S"
filename_format(t) ==
    Pad(t.year, 4) \o <<"-">> \o Pad(t.month, 2) \o <<"-">> \o Pad(t.day, 2) \o <<" ">>
    \o Pad(t.hour, 2) \o <<".">> \o Pad(t.minute, 2) \o <<".">> \o Pad(t.second, 2)

\* "{}/{}/{}".format(yearstr, monthstr, daystr)
date_dir(t) == Pad(t.year, 4) \o <<"/">> \o Pad(t.month, 2) \o <<"/">> \o Pad(t.day, 2)

no_exif_dir == <<"n", "o", "_", "E", "X", "I", "F">>

\* ------------------------------------------------------------------ placement

\* The file raises inside organize_file before anything is written:
\* strptime rejects the value of the date tag.
RaisesValueError(file) ==
    LET tags == get_exif_tags(file.data)
    IN  tags.tag = exif_date_tag /\ ~strptime(tags.value).ok

\* sort_dir of organize_file, relative to organized_dir
SortDir(file) ==
    LET tags == get_exif_tags(file.data)
    IN  IF tags.tag = exif_date_tag THEN date_dir(strptime(tags.value)) ELSE no_exif_dir

\* BaseFilename with the whole name of an undated file put in lower case
BaseFilename_Lowered(file) ==
    LET tags == get_exif_tags(file.data)
    IN  IF tags.tag = exif_date_tag
        THEN filename_format(strptime(tags.value)) \o lower(splitext(file.name)[2])
        ELSE lower(file.name)

\* BaseFilename with the extension of a dated file left in its case
BaseFilename_KeepCase(file) ==
    LET tags == get_exif_tags(file.data)
    IN  IF tags.tag = exif_date_tag
        THEN filename_format(strptime(tags.value)) \o splitext(file.name)[2]
        ELSE file.name

\* filename of organize_file before the collision check
BaseFilename(file) ==
    LET tags == get_exif_tags(file.data)
    IN  IF tags.tag = exif_date_tag
        THEN filename_format(strptime(tags.value)) \o lower(splitext(file.name)[2])
        ELSE file.name

\* str(uuid.uuid4()): a token no earlier call returned; n counts the calls.
uuid4(n) == <<"u">> \o Pad(n, 2)

\* "if file already exists, give it a unique name"
UniqueName(filename, token) ==
    splitext(filename)[1] \o <<" ">> \o token \o splitext(filename)[2]

\* FinalFilename without the check for an existing file
FinalFilename_Overwrite(file, arch, token) == BaseFilename(file)

\* filename of organize_file after the collision check
FinalFilename(file, arch, token) ==
    IF <<SortDir(file), BaseFilename(file)>> \in DOMAIN arch
    THEN UniqueName(BaseFilename(file), token)
    ELSE BaseFilename(file)

\* os.makedirs(sort_dir): the directory and every missing parent
makedirs(dir) ==
    {SubSeq(dir, 1, k - 1) : k \in {j \in 1..Len(dir) : dir[j] = "/"}} \cup {dir}

\* shutil.copy: the destination holds the bytes written, whatever it held
copy(arch, dest, bytes) ==
    [p \in DOMAIN arch \cup {dest} |-> IF p = dest THEN bytes ELSE arch[p]]

\* The proper prefixes of a content: what an interrupted copy leaves behind
Prefixes(data) == {SubSeq(data, 1, k) : k \in 0..(Len(data) - 1)}

\* ------------------------------------------------------------------ index

\* The sequence of the elements of a set of numbers, ascending
RECURSIVE Sorted(_)
Sorted(S) ==
    IF S = {} THEN <<>>
    ELSE LET m == CHOOSE x \in S : \A y \in S : x <= y
         IN  <<m>> \o Sorted(S \ {m})

Range(seq) == {seq[k] : k \in 1..Len(seq)}

\* find_duplicates that does not descend below the first level of directories
find_duplicates_OneLevel(arch) ==
    Sorted({hash_file(arch[p]) : p \in {q \in DOMAIN arch : \A k \in 1..Len(q[1]) : q[1][k] # "/"}})

\* find_duplicates(organized_dir)[0].keys(): one hash per distinct content of
\* the files under the archive (the order of os.walk is immaterial; ascending
\* here).
find_duplicates(arch) == Sorted({hash_file(arch[p]) : p \in DOMAIN arch})

\* ------------------------------------------------------------------ source trees

Hidden(file) == file.name[1] = "."

SourceFiles ==
    { [name |-> <<"A", ".", "J", "P", "G">>, data |-> <<1>>],
      [name |-> <<"c", ".", "j", "p", "g">>, data |-> <<3>>],
      [name |-> <<"N", ".", "t", "x", "t">>, data |-> <<0>>],
      [name |-> <<".", "h">>, data |-> <<0, 1>>],
      [name |-> <<"z", ".", "j", "p", "g">>, data |-> <<2>>] }

\* The files of a source tree in the order os.walk yields them
Trees == UNION {[1..n -> SourceFiles] : n \in 0..MaxFiles}

\* messy_dir as organize finds it: a tree of files, or no such directory
\* (os.walk then yields nothing)
SourceTrees ==
    {[exists |-> TRUE, files |-> files] : files \in Trees}
    \cup {[exists |-> FALSE, files |-> <<>>]}

\* NonHidden that counts every file
NonHidden_All(files, n) == n

\* len([f for f in filenames if f[0] != "."]) summed over the first n files
NonHidden(files, n) == Cardinality({k \in 1..n : ~Hidden(files[k])})

\* ------------------------------------------------------------------ state

VARIABLES
    dirs,           \* directories that exist at or under organized_dir (<<>> is organized_dir)
    archive,        \* files under organized_dir other than hashes.pickle: path -> content
    pickle,         \* organized_dir/hashes.pickle: absent, a pickled list, or unreadable
    messy,          \* messy_dir: whether it exists, and its files in walk order
    run,            \* number of organize() calls started
    pc,             \* position of the current call
    hashes,         \* the list `hashes`
    uniques_found,
    dupes_found,
    total_files,
    idx,            \* index of the next file of the walk
    filehash,       \* hash of the file being processed
    uuids,          \* number of uuid4() calls so far
    archive0,       \* history: the archive when the current call started
    hashes0,        \* history: `hashes` as loaded by the current call
    rerun,          \* history: the call repeats the previous, completed call's tree
    placed,         \* history: the last organize_file call that returned (fresh: nothing
                    \* was at the path written; old: what was at the computed path)
    failure         \* history: what ended the current call early

vars == <<dirs, archive, pickle, messy, run, pc, hashes, uniques_found, dupes_found,
          total_files, idx, filehash, uuids, archive0, hashes0, rerun, placed, failure>>

fs == <<dirs, archive, pickle>>
counters == <<uniques_found, dupes_found, total_files>>
history == <<archive0, hashes0, rerun, placed>>

NoPlacement ==
    [run |-> 0, file |-> [name |-> <<>>, data |-> <<>>], dir |-> <<>>, filename |-> <<>>,
     base |-> <<>>, collided |-> FALSE, token |-> <<>>, fresh |-> FALSE, old |-> <<>>]

Init ==
    /\ dirs = {}
    /\ archive = <<>>
    /\ pickle = [state |-> "absent", data |-> <<>>]
    /\ messy = [exists |-> TRUE, files |-> <<>>]
    /\ run = 0
    /\ pc = "idle"
    /\ hashes = <<>>
    /\ uniques_found = 0
    /\ dupes_found = 0
    /\ total_files = 0
    /\ idx = 1
    /\ filehash = 0
    /\ uuids = 0
    /\ archive0 = <<>>
    /\ hashes0 = <<>>
    /\ rerun = FALSE
    /\ placed = NoPlacement
    /\ failure = "none"

CurrentFile == messy.files[idx]

\* ------------------------------------------------------------------ organize()

\* An exception leaves organize: the call is over, and nothing of it outlives
\* it but the file system.  `why` records what was raised.
Abort(why) ==
    /\ pc' = "aborted"
    /\ failure' = why
    /\ messy' = [exists |-> TRUE, files |-> <<>>]
    /\ hashes' = <<>>
    /\ uniques_found' = 0
    /\ dupes_found' = 0
    /\ total_files' = 0
    /\ idx' = 1
    /\ filehash' = 0
    /\ archive0' = <<>>
    /\ hashes0' = <<>>
    /\ rerun' = FALSE
    /\ placed' = NoPlacement

\* lines 101-122 once `hashes` is known: organized_dir is made if it is
\* missing, the counters are reset and the non-hidden files counted.
Begin(tree, loaded) ==
    /\ run < MaxRuns
    /\ run' = run + 1
    /\ messy' = tree
    /\ dirs' = dirs \cup {<<>>}
    /\ hashes' = loaded
    /\ hashes0' = loaded
    /\ uniques_found' = 0
    /\ dupes_found' = 0
    /\ total_files' = NonHidden(tree.files, Len(tree.files))
    /\ idx' = 1
    /\ filehash' = 0
    /\ pc' = "walk"
    /\ archive0' = archive
    /\ rerun' = (pc = "done")
    /\ placed' = NoPlacement
    /\ failure' = "none"
    /\ UNCHANGED <<archive, pickle, uuids>>

\* lines 109-111: hashes.pickle is a file and unpickles
LoadPickle ==
    /\ pc = "idle"
    /\ pickle.state = "ok"
    /\ \E tree \in SourceTrees : Begin(tree, pickle.data)

\* lines 112-114: no hashes.pickle, the archive is scanned
Rebuild ==
    /\ pc = "idle"
    /\ pickle.state = "absent"
    /\ \E tree \in SourceTrees : Begin(tree, find_duplicates(archive))

\* organize has returned and is called again on the same, unchanged tree;
\* lines 109-111: the hashes.pickle it wrote unpickles
Rerun ==
    /\ pc = "done"
    /\ pickle.state = "ok"
    /\ Begin(messy, pickle.data)

\* lines 109-111: hashes.pickle is a file and pickle.load raises
LoadPickleRaises ==
    /\ pc = "idle"
    /\ run < MaxRuns
    /\ pickle.state = "corrupt"
    /\ run' = run + 1
    /\ dirs' = dirs \cup {<<>>}
    /\ Abort("load")
    /\ UNCHANGED <<archive, pickle, uuids>>

\* SkipHidden with the hidden file counted as a duplicate
SkipHidden_Counted ==
    /\ pc = "walk"
    /\ idx <= Len(messy.files)
    /\ Hidden(CurrentFile)
    /\ idx' = idx + 1
    /\ dupes_found' = dupes_found + 1
    /\ UNCHANGED <<fs, messy, run, pc, hashes, uniques_found, total_files, filehash, uuids,
                   history, failure>>

\* lines 128-129: a hidden file is passed over
SkipHidden ==
    /\ pc = "walk"
    /\ idx <= Len(messy.files)
    /\ Hidden(CurrentFile)
    /\ idx' = idx + 1
    /\ UNCHANGED <<fs, messy, run, pc, hashes, counters, filehash, uuids, history, failure>>

\* AppendHash without the append
AppendHash_NoAppend ==
    /\ pc = "walk"
    /\ idx <= Len(messy.files)
    /\ ~Hidden(CurrentFile)
    /\ hash_file(CurrentFile.data) \notin Range(hashes)
    /\ filehash' = hash_file(CurrentFile.data)
    /\ pc' = "place"
    /\ UNCHANGED <<fs, messy, run, hashes, counters, idx, uuids, history, failure>>

\* lines 131-135: the file is hashed, the hash is new and is appended
AppendHash ==
    /\ pc = "walk"
    /\ idx <= Len(messy.files)
    /\ ~Hidden(CurrentFile)
    /\ hash_file(CurrentFile.data) \notin Range(hashes)
    /\ filehash' = hash_file(CurrentFile.data)
    /\ hashes' = Append(hashes, hash_file(CurrentFile.data))
    /\ pc' = "place"
    /\ UNCHANGED <<fs, messy, run, counters, idx, uuids, history, failure>>

\* CountDupe with the append outside the membership test
CountDupe_Appends ==
    /\ pc = "walk"
    /\ idx <= Len(messy.files)
    /\ ~Hidden(CurrentFile)
    /\ hash_file(CurrentFile.data) \in Range(hashes)
    /\ filehash' = hash_file(CurrentFile.data)
    /\ hashes' = Append(hashes, hash_file(CurrentFile.data))
    /\ dupes_found' = dupes_found + 1
    /\ idx' = idx + 1
    /\ UNCHANGED <<fs, messy, run, pc, uniques_found, total_files, uuids,
                   history, failure>>

\* lines 131-134, 138-143: the file is hashed, the hash is known and the
\* file is counted as a duplicate
CountDupe ==
    /\ pc = "walk"
    /\ idx <= Len(messy.files)
    /\ ~Hidden(CurrentFile)
    /\ hash_file(CurrentFile.data) \in Range(hashes)
    /\ filehash' = hash_file(CurrentFile.data)
    /\ dupes_found' = dupes_found + 1
    /\ idx' = idx + 1
    /\ UNCHANGED <<fs, messy, run, pc, hashes, uniques_found, total_files, uuids,
                   history, failure>>

\* line 132: the file cannot be read, hash_file raises
HashFileRaises ==
    /\ pc = "walk"
    /\ idx <= Len(messy.files)
    /\ ~Hidden(CurrentFile)
    /\ Abort("hash")
    /\ UNCHANGED <<fs, run, uuids>>

\* lines 136-137, 142-143: organize_file returns and the file is counted
OrganizeFile ==
    /\ pc = "place"
    /\ ~RaisesValueError(CurrentFile)
    /\ LET file == CurrentFile
           dir == SortDir(file)
           collided == <<dir, BaseFilename(file)>> \in DOMAIN archive
           token == uuid4(uuids + 1)
           filename == FinalFilename(file, archive, token)
       IN  /\ collided => uuids < MaxUuids
           /\ dirs' = dirs \cup makedirs(dir)
           /\ archive' = copy(archive, <<dir, filename>>, file.data)
           /\ uuids' = IF collided THEN uuids + 1 ELSE uuids
           /\ placed' = [run |-> run, file |-> file, dir |-> dir, filename |-> filename,
                         base |-> BaseFilename(file), collided |-> collided,
                         token |-> IF collided THEN token ELSE <<>>,
                         fresh |-> <<dir, filename>> \notin DOMAIN archive,
                         old |-> IF collided THEN archive[<<dir, BaseFilename(file)>>]
                                 ELSE <<>>]
    /\ uniques_found' = uniques_found + 1
    /\ idx' = idx + 1
    /\ pc' = "walk"
    /\ UNCHANGED <<pickle, messy, run, hashes, dupes_found, total_files, filehash,
                   archive0, hashes0, rerun, failure>>

\* line 62: get_exif_tags raises (the file cannot be opened or read)
ExtractRaises ==
    /\ pc = "place"
    /\ Abort("extract")
    /\ UNCHANGED <<fs, run, uuids>>

\* line 67: strptime raises ValueError on the value of the date tag
ParseRaises ==
    /\ pc = "place"
    /\ RaisesValueError(CurrentFile)
    /\ Abort("parse")
    /\ UNCHANGED <<fs, run, uuids>>

\* line 89: shutil.copy raises or the process dies part-way: the destination
\* holds a proper prefix of the source
CopyRaises ==
    /\ pc = "place"
    /\ ~RaisesValueError(CurrentFile)
    /\ LET file == CurrentFile
           dir == SortDir(file)
           collided == <<dir, BaseFilename(file)>> \in DOMAIN archive
           filename == FinalFilename(file, archive, uuid4(uuids + 1))
       IN  /\ collided => uuids < MaxUuids
           /\ dirs' = dirs \cup makedirs(dir)
           /\ uuids' = IF collided THEN uuids + 1 ELSE uuids
           /\ \E part \in Prefixes(file.data) :
                  archive' = copy(archive, <<dir, filename>>, part)
    /\ Abort("copy")
    /\ UNCHANGED <<pickle, run>>

\* the process is interrupted between two files
Interrupt ==
    /\ pc = "walk"
    /\ Abort("interrupt")
    /\ UNCHANGED <<fs, run, uuids>>

\* SaveHashes pickling the list as it was loaded
SaveHashes_Loaded ==
    /\ pc = "walk"
    /\ idx > Len(messy.files)
    /\ pickle' = [state |-> "ok", data |-> hashes0]
    /\ pc' = "done"
    /\ UNCHANGED <<dirs, archive, messy, run, hashes, counters, idx, filehash, uuids,
                   history, failure>>

\* lines 145-149: the list is pickled and the call returns
SaveHashes ==
    /\ pc = "walk"
    /\ idx > Len(messy.files)
    /\ pickle' = [state |-> "ok", data |-> hashes]
    /\ pc' = "done"
    /\ UNCHANGED <<dirs, archive, messy, run, hashes, counters, idx, filehash, uuids,
                   history, failure>>

\* lines 146-147: the file is opened for writing (truncated) and the dump
\* does not finish
SaveHashesRaises ==
    /\ pc = "walk"
    /\ idx > Len(messy.files)
    /\ pickle' = [state |-> "corrupt", data |-> <<>>]
    /\ Abort("save")
    /\ UNCHANGED <<dirs, archive, run, uuids>>

\* The process has ended and a later call may be of any tree.
Exit ==
    /\ pc \in {"done", "aborted"}
    /\ pc' = "idle"
    /\ messy' = [exists |-> TRUE, files |-> <<>>]
    /\ hashes' = <<>>
    /\ uniques_found' = 0
    /\ dupes_found' = 0
    /\ total_files' = 0
    /\ idx' = 1
    /\ filehash' = 0
    /\ archive0' = <<>>
    /\ hashes0' = <<>>
    /\ rerun' = FALSE
    /\ placed' = NoPlacement
    /\ failure' = "none"
    /\ UNCHANGED <<fs, run, uuids>>

Next ==
    \/ LoadPickle
    \/ LoadPickleRaises
    \/ Rebuild
    \/ Rerun
    \/ SkipHidden
    \/ AppendHash
    \/ CountDupe
    \/ HashFileRaises
    \/ OrganizeFile
    \/ ExtractRaises
    \/ ParseRaises
    \/ CopyRaises
    \/ Interrupt
    \/ SaveHashes
    \/ SaveHashesRaises
    \/ Exit

Spec == Init /\ [][Next]_vars

\* ------------------------------------------------------------------ properties

Copies(arch, data) == {p \in DOMAIN arch : arch[p] = data}

Visible(files) == {k \in 1..Len(files) : files[k].name[1] # "."}

HasDateTag(file) == get_exif_tags(file.data).tag = exif_date_tag

\* C1: when a call returns, of the non-hidden files of the tree that hold the
\* same bytes, bytes the archive did not hold when the call started, exactly
\* one copy is in the archive and the others were counted as duplicates.
C1_OneCopyOfIdenticalFiles ==
    pc = "done" =>
        \A a, b \in Visible(messy.files) :
            ( /\ a < b
              /\ messy.files[a].data = messy.files[b].data
              /\ Copies(archive0, messy.files[a].data) = {} )
            => /\ Cardinality(Copies(archive, messy.files[a].data)) = 1
               /\ dupes_found >= Cardinality(Visible(messy.files))
                      - Cardinality({messy.files[k].data : k \in Visible(messy.files)})

C1_Witness ==
    /\ pc = "done"
    /\ \E a, b \in Visible(messy.files) :
           /\ a < b
           /\ messy.files[a].data = messy.files[b].data
           /\ Copies(archive0, messy.files[a].data) = {}
           /\ Cardinality(Copies(archive, messy.files[a].data)) = 1
    /\ uniques_found = 1
    /\ dupes_found = 1

\* C2: a call that repeats the tree of the previous call, which returned,
\* places no file: uniques_found stays 0, and when it returns every
\* non-hidden file was counted as a duplicate and the archive is as it was.
C2_SecondRunPlacesNothing ==
    rerun =>
        /\ uniques_found = 0
        /\ archive = archive0
        /\ pc = "done" => dupes_found = Cardinality(Visible(messy.files))

C2_Witness ==
    /\ rerun
    /\ pc = "done"
    /\ dupes_found = 2
    /\ archive0 # <<>>
    /\ archive = archive0

\* C3: whatever calls were made and wherever they were interrupted, no two
\* files of the archive have the same content hash (stated for the complete
\* copies of source files; what an interrupted copy left behind is set aside).
C3_AtMostOncePerHash ==
    \A p, q \in DOMAIN archive :
        (p # q /\ archive[p] \in {f.data : f \in SourceFiles})
        => hash_file(archive[p]) # hash_file(archive[q])

\* C4: no step changes or removes a file the archive holds; and when
\* organize_file finds a file at the computed path, the copy is written to
\* the computed name with a space and a fresh token put before its extension.
C4_NoOverwriteOnCollision ==
    [][ /\ \A p \in DOMAIN archive : p \in DOMAIN archive' /\ archive'[p] = archive[p]
        /\ (pc = "place" /\ pc' = "walk" /\ <<placed'.dir, placed'.base>> \in DOMAIN archive)
           => /\ placed'.token # <<>>
              /\ \A p \in DOMAIN archive : \A k \in 1..(Len(p[2]) - Len(placed'.token) + 1) :
                     SubSeq(p[2], k, k + Len(placed'.token) - 1) # placed'.token
              /\ \E k \in 1..Len(placed'.base) :
                     /\ placed'.base[k] = "."
                     /\ \A j \in (k + 1)..Len(placed'.base) : placed'.base[j] # "."
                     /\ placed'.filename = SubSeq(placed'.base, 1, k - 1) \o <<" ">>
                            \o placed'.token \o SubSeq(placed'.base, k, Len(placed'.base))
              /\ DOMAIN archive' = DOMAIN archive \cup {<<placed'.dir, placed'.filename>>}
              /\ archive'[<<placed'.dir, placed'.filename>>] = placed'.file.data
      ]_vars

C4_Witness ==
    /\ placed.run > 0
    /\ placed.collided
    /\ placed.old # placed.file.data
    /\ placed.old # <<>>
    /\ archive[<<placed.dir, placed.base>>] = placed.old
    /\ archive[<<placed.dir, placed.filename>>] = placed.file.data

NoMetadataName == <<"n", "o", "_", "m", "e", "t", "a", "d", "a", "t", "a">>
NoExifName == <<"n", "o", "_", "E", "X", "I", "F">>

C6_DatedDestination ==
    (placed.run > 0 /\ HasDateTag(placed.file) /\ ~placed.collided)
    => LET t == strptime(get_exif_tags(placed.file.data).value)
           d == placed.dir
           f == placed.filename
           n == placed.file.name
           e == CHOOSE k \in 1..Len(n) : n[k] = "." /\ \A j \in (k + 1)..Len(n) : n[j] # "."
       IN  /\ t.ok
           /\ Len(d) = 10 /\ d[5] = "/" /\ d[8] = "/"
           /\ Num(d, 1, 4) = t.year /\ Num(d, 6, 7) = t.month /\ Num(d, 9, 10) = t.day
           /\ Len(f) = 19 + (Len(n) - e + 1)
           /\ f[5] = "-" /\ f[8] = "-" /\ f[11] = " " /\ f[14] = "." /\ f[17] = "."
           /\ Num(f, 1, 4) = t.year /\ Num(f, 6, 7) = t.month /\ Num(f, 9, 10) = t.day
           /\ Num(f, 12, 13) = t.hour /\ Num(f, 15, 16) = t.minute
           /\ Num(f, 18, 19) = t.second
           /\ \A k \in e..Len(n) :
                  /\ \A u \in 1..26 : f[19 + k - e + 1] # Upper[u]
                  /\ LowerChar(n[k]) = f[19 + k - e + 1]
           /\ <<d, f>> \in DOMAIN archive
           /\ placed.fresh
           /\ archive[<<d, f>>] = placed.file.data
           /\ (n = <<"A", ".", "J", "P", "G">> /\ get_exif_tags(placed.file.data).value = GoodDate)
              => /\ d = <<"2", "0", "2", "1", "/", "0", "6", "/", "1", "5">>
                 /\ f = <<"2", "0", "2", "1", "-", "0", "6", "-", "1", "5", " ", "1", "0", ".", "3", "0", ".", "0", "0", ".", "j", "p", "g">>

C6_Witness ==
    /\ placed.run > 0
    /\ ~placed.collided
    /\ placed.file.name = <<"A", ".", "J", "P", "G">>
    /\ archive[<<<<"2", "0", "2", "1", "/", "0", "6", "/", "1", "5">>, <<"2", "0", "2", "1", "-", "0", "6", "-", "1", "5", " ", "1", "0", ".", "3", "0", ".", "0", "0", ".", "j", "p", "g">>>>] = <<1>>

\* C7: at every point of a call uniques_found + dupes_found is the number of
\* non-hidden files among the files the walk has passed, and when the call
\* returns the walk has passed every file.
C7_CountersMatchVisited ==
    /\ uniques_found + dupes_found = Cardinality(Visible(SubSeq(messy.files, 1, idx - 1)))
    /\ pc = "done" => /\ idx = Len(messy.files) + 1
                      /\ uniques_found + dupes_found = total_files

C7_Witness ==
    /\ pc = "done"
    /\ uniques_found + dupes_found = 1
    /\ Len(messy.files) = 2
    /\ \E k \in 1..2 : messy.files[k].name[1] = "."

\* C8: when the copy of a file fails, the list does not hold the hash of that
\* file; and a pickled list holds only hashes of content the archive holds.
C8_FailedCopyNotRecorded ==
    [][ /\ (pc = "place" /\ failure' = "copy") => filehash \notin Range(hashes)
        /\ pickle'.state = "ok" =>
               \A h \in Range(pickle'.data) :
                   \E p \in DOMAIN archive' : hash_file(archive'[p]) = h
      ]_vars

\* C9: a call that finds hashes.pickle unreadable scans the archive instead
\* and goes on.
C9_CorruptPickleFallsBack ==
    [][ (pc = "idle" /\ run' = run + 1 /\ pickle.state = "corrupt")
        => (pc' = "walk" /\ hashes' = find_duplicates(archive)) ]_vars

\* C10: metadata resolution never ends a call; stated for the case of a date
\* tag that is read but does not parse: organize_file places the file under
\* the directory for files without a date and the walk goes on to the next
\* file.
C10_MetadataNeverAborts ==
    [][ (pc = "place" /\ RaisesValueError(CurrentFile) /\ failure' # "extract")
        => /\ pc' = "walk"
           /\ idx' = idx + 1
           /\ placed'.file = CurrentFile
           /\ placed'.dir = NoExifName
      ]_vars

\* C11: a call whose messy_dir does not exist ends before any work: it does
\* not make organized_dir, and it writes no hashes.pickle.
C11_MissingSourceAborts ==
    [][ /\ (run' = run + 1 /\ ~messy'.exists) => (dirs' = dirs /\ pc' = "aborted")
        /\ ~messy.exists => pickle' = pickle
      ]_vars

Fingerprints(arch) == {hash_file(arch[p]) : p \in DOMAIN arch}

\* C12: whenever a file is about to be tested against the list, a hash is in
\* the list if and only if a file with that content is in the archive.
C12_IndexMatchesArchive ==
    (pc = "walk" /\ idx <= Len(messy.files) /\ messy.files[idx].name[1] # ".")
    => Range(hashes) = Fingerprints(archive)

\* C13: hashes.pickle is never seen partly written: a step leaves it as it
\* was or leaves the complete new list in it.
C13_PickleWrittenAtomically ==
    [][ \/ pickle' = pickle
        \/ pickle' = [state |-> "ok", data |-> hashes]
      ]_vars

\* C14: a failure to hash or to copy one file does not end the call: the file
\* is passed over and the walk goes on with the next file.
C14_PerFileFailureContinues ==
    [][ (pc \in {"walk", "place"} /\ failure' \in {"hash", "copy"})
        => (pc' = "walk" /\ idx' = idx + 1 /\ messy' = messy)
      ]_vars

IOFailures == {"load", "hash", "extract", "copy", "save", "interrupt"}

C15_Order ==
    /\ pickle' # pickle => (pc = "walk" /\ idx > Len(messy.files))
    /\ pc' = "place" => (pc = "walk" /\ hashes = hashes0 \o SubSeq(hashes, Len(hashes0) + 1, Len(hashes))
                         /\ filehash' \notin Range(hashes))
    /\ (pc = "place" /\ pc' = "walk") => (archive' # archive /\ uniques_found' = uniques_found + 1)
    /\ pc' = "done" => uniques_found' + dupes_found' = total_files'

\* C15: in a call with no I/O failure the list is loaded before any file is
\* hashed, a file is placed only after its hash was found absent and is then
\* counted, hashes.pickle is written only after the last file, and the call
\* is not ended early.
C15_RunOrderAndTermination ==
    [][ /\ C15_Order
        /\ (pc \in {"walk", "place"} /\ pc' \notin {"walk", "place", "done"})
           => failure' \in IOFailures
      ]_vars

DistinctContents(arch) ==
    \A p, q \in DOMAIN arch : arch[p] = arch[q] => p = q

\* C16: with no hashes.pickle the list is built by scanning the archive: an
\* archive of N files with pairwise different content gives exactly N hashes,
\* one per file, and an empty or new archive gives the empty list.
C16_RebuildOneHashPerFile ==
    (pc \in {"walk", "place"} /\ pickle.state = "absent")
    => /\ DistinctContents(archive0)
          => /\ Len(hashes0) = Cardinality(DOMAIN archive0)
             /\ Range(hashes0) = Fingerprints(archive0)
       /\ archive0 = <<>> => hashes0 = <<>>

C16_Witness ==
    /\ pc = "walk"
    /\ pickle.state = "absent"
    /\ DistinctContents(archive0)
    /\ Cardinality(DOMAIN archive0) = 2
    /\ Len(hashes0) = 2

OnlyHidden(data) ==
    \A g \in SourceFiles : g.data = data => g.name[1] = "."

\* C17: a file whose name starts with "." is not hashed, not copied, its
\* hash is not put in the list, and it is counted neither in uniques_found,
\* nor in dupes_found, nor in total_files.
C17_HiddenFilesExcluded ==
    /\ pc \in {"walk", "place", "done"}
       => /\ total_files = Cardinality(Visible(messy.files))
          /\ uniques_found + dupes_found <= Cardinality(Visible(messy.files))
    /\ placed.run > 0 => placed.file.name[1] # "."
    /\ \A f \in SourceFiles :
          (f.name[1] = "." /\ OnlyHidden(f.data))
          => /\ filehash # hash_file(f.data)
             /\ hash_file(f.data) \notin Range(hashes) \cup Range(pickle.data)
             /\ Copies(archive, f.data) = {}

C17_Witness ==
    /\ pc = "done"
    /\ Len(messy.files) = 2
    /\ messy.files[1].name[1] = "."
    /\ total_files = 1
    /\ uniques_found = 1
    /\ Cardinality(DOMAIN archive) = 1

NoRepeats(seq) == Cardinality(Range(seq)) = Len(seq)

\* C18: within a call no hash leaves the list, no hash is in the list twice,
\* and the list a completed call pickles holds every hash of the list the
\* call started with.
C18_IndexOnlyGrows ==
    [][ (pc \in {"walk", "place"} /\ pc' \in {"walk", "place", "done"})
        => /\ Range(hashes) \subseteq Range(hashes')
           /\ NoRepeats(hashes')
           /\ pc' = "done" => /\ pickle'.state = "ok"
                              /\ Range(hashes0') \subseteq Range(pickle'.data)
      ]_vars

C18_Witness ==
    /\ pc = "done"
    /\ Len(hashes0) >= 1
    /\ Len(hashes) > Len(hashes0)
    /\ dupes_found >= 1
    /\ pickle.data = hashes

\* C19: in a completed call uniques_found is the number of files the call
\* added to the archive and the number of hashes it added to the list; a
\* file counted as a duplicate changes neither the archive nor the list.
C19_UniquesMatchAdditions ==
    [][ /\ pc' = "done"
           => /\ uniques_found' = Cardinality(DOMAIN archive') - Cardinality(DOMAIN archive0')
              /\ uniques_found' = Len(hashes') - Len(hashes0')
        /\ (pc = "walk" /\ dupes_found' = dupes_found + 1)
           => (archive' = archive /\ dirs' = dirs /\ hashes' = hashes)
      ]_vars

C19_Witness ==
    /\ pc = "done"
    /\ uniques_found = 1
    /\ dupes_found = 1
    /\ Cardinality(DOMAIN archive) = Cardinality(DOMAIN archive0) + 1
    /\ Len(hashes) = Len(hashes0) + 1

====
